---- MODULE Spec2Model ----
(***************************************************************************)
(* Model of pkg/adapter/adapter.go: the Ceph receive adapter.  An HTTP     *)
(* listener hands every request to postHandler in its own goroutine;       *)
(* postHandler decodes a batch of bucket notifications and calls           *)
(* postMessage per record, which builds a CloudEvent and sends it to the   *)
(* sink through sendCloudEvent.  start spawns the listener and blocks on   *)
(* the stop channel.                                                       *)
(***************************************************************************)
EXTENDS Integers, Sequences, FiniteSets, TLC

(***************************************************************************)
(* Bounds of the model.                                                    *)
(***************************************************************************)
\* number of requests the listener dispatches over one run
NumRequests == 1
\* longest Records sequence of a request body
MaxBatch == 2
\* the wall clock takes the values 0..MaxClock
MaxClock == 1

(***************************************************************************)
(* Program constants.                                                      *)
(***************************************************************************)
resourceGroup == "cephsources.sources.knative.dev"
StatusBadRequest == 400
StatusOK == 200

Requests == 1..NumRequests

(***************************************************************************)
(* Request bodies.  A JSON record object is a function from the member     *)
(* paths it carries to their string values; a member that is absent from   *)
(* the document is absent from the function's domain.                      *)
(***************************************************************************)
JPut ==
    [eventTime |-> "2021-01-01T00:00:00Z", eventName |-> "ObjectCreated:Put",
     eventSource |-> "ceph:s3", awsRegion |-> "us-east-1",
     bucketName |-> "mybucket", objectKey |-> "file.txt",
     requestId |-> "abc", id2 |-> "123"]

\* no awsRegion member, an eventTime that is no RFC 3339 text
JDelete ==
    [eventTime |-> "yesterday", eventName |-> "ObjectRemoved:Delete",
     eventSource |-> "ceph:s3",
     bucketName |-> "logs", objectKey |-> "a/b.log",
     requestId |-> "ab", id2 |-> "c123"]

\* a numeric zone offset; no eventSource member
JCopy ==
    [eventTime |-> "2020-02-29T23:59:59+05:30", eventName |-> "ObjectCreated:Copy",
     awsRegion |-> "eu-west-1",
     bucketName |-> "mybucket", objectKey |-> "copy.txt",
     requestId |-> "req-7", id2 |-> "x"]

Feed == <<JPut, JDelete, JCopy>>

\* the Records sequences the clients post: the windows of Feed
Batches ==
    {<<>>} \cup
    { SubSeq(Feed, a, b) : <<a, b>> \in
        { w \in (1..Len(Feed)) \X (1..Len(Feed)) :
            w[1] <= w[2] /\ w[2] - w[1] + 1 <= MaxBatch } }

InvalidBody == [json |-> FALSE, hasRecords |-> FALSE, Records |-> <<>>]
NoRecordsBody == [json |-> TRUE, hasRecords |-> FALSE, Records |-> <<>>]

Bodies ==
    {InvalidBody, NoRecordsBody} \cup
    { [json |-> TRUE, hasRecords |-> TRUE, Records |-> b] : b \in Batches }

Methods == {"POST", "GET"}

(***************************************************************************)
(* json.Unmarshal into ceph.BucketNotifications.                           *)
(***************************************************************************)
Member(j, path) == IF path \in DOMAIN j THEN j[path] ELSE ""

\* one element of Records decoded into a ceph.BucketNotification
DecodeNotification(j) ==
    [EventTime |-> Member(j, "eventTime"),
     EventName |-> Member(j, "eventName"),
     EventSource |-> Member(j, "eventSource"),
     AwsRegion |-> Member(j, "awsRegion"),
     S3 |-> [Bucket |-> [Name |-> Member(j, "bucketName")],
             Object |-> [Key |-> Member(j, "objectKey")]],
     ResponseElements |-> [XAmzRequestID |-> Member(j, "requestId"),
                           XAmzID2 |-> Member(j, "id2")]]

SyntaxErrorText == "invalid character 'o' in literal null (expecting 'u')"

\* json.Unmarshal(body, &notifications): the decoded Records and the error
Unmarshal(body) ==
    IF ~body.json
    THEN [Records |-> <<>>, err |-> SyntaxErrorText]
    ELSE IF ~body.hasRecords
    THEN [Records |-> <<>>, err |-> ""]
    ELSE [Records |-> [i \in 1..Len(body.Records) |->
                          DecodeNotification(body.Records[i])],
          err |-> ""]

(***************************************************************************)
(* time.Parse(time.RFC3339, s), for the forms YYYY-MM-DDThh:mm:ssZ and     *)
(* YYYY-MM-DDThh:mm:ss+hh:mm / -hh:mm.                                     *)
(***************************************************************************)
Digits == {"0", "1", "2", "3", "4", "5", "6", "7", "8", "9"}

DigitVal(c) ==
    CASE c = "0" -> 0 [] c = "1" -> 1 [] c = "2" -> 2 [] c = "3" -> 3
      [] c = "4" -> 4 [] c = "5" -> 5 [] c = "6" -> 6 [] c = "7" -> 7
      [] c = "8" -> 8 [] c = "9" -> 9

Char(s, i) == SubSeq(s, i, i)

AllDigits(s, a, b) == \A i \in a..b : Char(s, i) \in Digits

RECURSIVE Number(_, _, _)
Number(s, a, b) ==
    IF a > b THEN 0 ELSE 10 * Number(s, a, b - 1) + DigitVal(Char(s, b))

IsLeap(y) == (y % 4 = 0) /\ ((y % 100 # 0) \/ (y % 400 = 0))

DaysIn(y, m) ==
    IF m = 2 THEN (IF IsLeap(y) THEN 29 ELSE 28)
    ELSE IF m \in {4, 6, 9, 11} THEN 30 ELSE 31

\* the fixed part YYYY-MM-DDThh:mm:ss, the first 19 characters
DateTimeShape(s) ==
    /\ Len(s) >= 20
    /\ AllDigits(s, 1, 4) /\ Char(s, 5) = "-"
    /\ AllDigits(s, 6, 7) /\ Char(s, 8) = "-"
    /\ AllDigits(s, 9, 10) /\ Char(s, 11) = "T"
    /\ AllDigits(s, 12, 13) /\ Char(s, 14) = ":"
    /\ AllDigits(s, 15, 16) /\ Char(s, 17) = ":"
    /\ AllDigits(s, 18, 19)

DateTimeRange(s) ==
    /\ Number(s, 6, 7) \in 1..12
    /\ Number(s, 9, 10) \in 1..DaysIn(Number(s, 1, 4), Number(s, 6, 7))
    /\ Number(s, 12, 13) \in 0..23
    /\ Number(s, 15, 16) \in 0..59
    /\ Number(s, 18, 19) \in 0..59

ZoneShape(s) ==
    \/ Len(s) = 20 /\ Char(s, 20) = "Z"
    \/ /\ Len(s) = 25
       /\ Char(s, 20) \in {"+", "-"}
       /\ AllDigits(s, 21, 22) /\ Char(s, 23) = ":" /\ AllDigits(s, 24, 25)
       /\ Number(s, 21, 22) \in 0..23
       /\ Number(s, 24, 25) \in 0..59

\* minutes east of UTC
ZoneOffset(s) ==
    IF Len(s) = 20 THEN 0
    ELSE (IF Char(s, 20) = "-" THEN -1 ELSE 1)
         * (60 * Number(s, 21, 22) + Number(s, 24, 25))

ParseOK(s) == DateTimeShape(s) /\ DateTimeRange(s) /\ ZoneShape(s)

\* time.Parse(time.RFC3339, s): the time value and whether err is nil
ParseRFC3339(s) ==
    IF ParseOK(s)
    THEN [ok |-> TRUE,
          t |-> [clock |-> "parsed",
                 year |-> Number(s, 1, 4), month |-> Number(s, 6, 7),
                 day |-> Number(s, 9, 10), hour |-> Number(s, 12, 13),
                 minute |-> Number(s, 15, 16), second |-> Number(s, 18, 19),
                 offset |-> ZoneOffset(s)]]
    ELSE [ok |-> FALSE, t |-> [clock |-> "zero"]]

\* time.Now() when the wall clock reads now
TimeNow(now) == [clock |-> "wall", at |-> now]

(***************************************************************************)
(* postMessage: the CloudEvent derived from one notification.              *)
(***************************************************************************)
\* EventID with the two identifiers in the other order
EventIDReversed(n) ==
    n.ResponseElements.XAmzID2 \o n.ResponseElements.XAmzRequestID

EventID(n) == n.ResponseElements.XAmzRequestID \o n.ResponseElements.XAmzID2

EventSource(n) == n.EventSource \o "." \o n.AwsRegion \o "." \o n.S3.Bucket.Name

EventType(n) == "com.amazonaws." \o n.EventName

EventSubject(n) == n.S3.Object.Key

\* EventTime keeping what time.Parse returned, the error unread
EventTimeWithoutFallback(n, now) == ParseRFC3339(n.EventTime).t

\* the parsed eventTime, or the wall clock when it does not parse
EventTime(n, now) ==
    IF ParseRFC3339(n.EventTime).ok
    THEN ParseRFC3339(n.EventTime).t
    ELSE TimeNow(now)

NewEvent(n, now) ==
    [id |-> EventID(n),
     source |-> EventSource(n),
     type |-> EventType(n),
     subject |-> EventSubject(n),
     time |-> EventTime(n, now),
     datacontenttype |-> "application/json",
     data |-> n]

MarshalErrorText == "failed to marshal event data: json: unsupported value"

\* MetricContext with the name and the namespace in each other's place
MetricContextSwapped(a) ==
    [parent |-> "background",
     metricTag |-> [Namespace |-> a.name, Name |-> a.namespace,
                    ResourceGroup |-> resourceGroup]]

\* context.Background() carrying the adapter's metric tag
MetricContext(a) ==
    [parent |-> "background",
     metricTag |-> [Namespace |-> a.namespace, Name |-> a.name,
                    ResourceGroup |-> resourceGroup]]

(***************************************************************************)
(* The results the sink client's Send returns.                             *)
(***************************************************************************)
ResultNil == [kind |-> "nil", text |-> ""]
ResultACK == [kind |-> "ACK", text |-> "202: Accepted"]
ResultNACK == [kind |-> "NACK", text |-> "500: sink rejected the event"]
ResultError == [kind |-> "error", text |-> "dial tcp: connection refused"]
Pending == [kind |-> "pending", text |-> ""]

Results == {ResultNil, ResultACK, ResultNACK, ResultError}

\* the clients handed to NewAdapter: one whose Send reports a delivery as a
\* nil result, one whose Send reports it as an ACK result
Clients == {"nil on delivery", "ACK on delivery"}

\* what Send of a client can return
SendResults(client) ==
    IF client = "nil on delivery"
    THEN Results \ {ResultACK}
    ELSE Results \ {ResultNil}

\* IsACK as if only a transport error were a failure
IsACKUnlessError(result) == result.kind # "error"

\* cloudevents.IsACK: a nil result counts as an acknowledgement
IsACK(result) == result.kind \in {"nil", "ACK"}

(***************************************************************************)
(* The state.                                                              *)
(***************************************************************************)
VARIABLES
    req,        \* per request: the postHandler goroutine and its response
    now,        \* the wall clock
    ca,         \* the cephReceiveAdapter's fields
    startPc,    \* where start is: "new", "waiting", "returned"
    startResult, \* what start returned: "none" while it has not, then "nil"
    listener,   \* the ListenAndServe goroutine: "none", "spawned", "serving", "failed"
    stopCh,     \* the stop channel: "open", "closed"
    mux         \* the patterns registered on http.DefaultServeMux

vars == <<req, now, ca, startPc, startResult, listener, stopCh, mux>>

\* the requests the listener dispatches, one postHandler goroutine each
Handlers == DOMAIN req

IdleRequest ==
    [pc |-> "idle", method |-> "", body |-> InvalidBody, late |-> FALSE, resubmission |-> FALSE,
     bodyRead |-> FALSE, decoded |-> FALSE, notifications |-> <<>>,
     i |-> 0, mapped |-> 0, sends |-> <<>>,
     allow |-> "", status |-> 0, respBody |-> ""]

\* NewAdapter: the fields copied from the environment configuration
NewAdapter(ceClient) ==
    [client |-> ceClient,
     port |-> "8080", name |-> "ceph-source", namespace |-> "default"]

Init ==
    /\ req = [r \in Requests |-> IdleRequest]
    /\ now = 0
    /\ ca \in {NewAdapter(c) : c \in Clients}
    /\ startPc = "new"
    /\ startResult = "none"
    /\ listener = "none"
    /\ stopCh = "open"
    /\ mux = {}

(***************************************************************************)
(* postHandler, as steps on one request's record.                          *)
(***************************************************************************)
\* HttpError writing the text but not the status
HttpErrorWithoutStatus(q, text, code) ==
    [q EXCEPT !.respBody = text \o "\n"]

\* http.Error(w, text, code): the status line and the text as one line
HttpError(q, text, code) ==
    [q EXCEPT !.status = code, !.respBody = text \o "\n"]

\* the handler returns; a response never written to is an empty 200
Return(q) ==
    [q EXCEPT !.pc = "done",
              !.status = IF q.status = 0 THEN StatusOK ELSE q.status]

\* MethodAllowed letting every named method through
MethodAllowedAny(method) == method # ""

MethodAllowed(method) == method = "POST"

\* lines 136-141: the Allow header and the method check
Entry(q) ==
    LET h == [q EXCEPT !.allow = "POST"]
    IN  IF ~MethodAllowed(h.method)
        THEN Return(HttpError(h, "405 Method Not Allowed", StatusBadRequest))
        ELSE [h EXCEPT !.pc = "read"]

ReadErrorText == "unexpected EOF"

\* lines 143-148: ioutil.ReadAll(r.Body)
ReadAll(q, ok) ==
    IF ~ok
    THEN Return(HttpError(q, ReadErrorText, StatusBadRequest))
    ELSE [q EXCEPT !.bodyRead = TRUE, !.pc = "decode"]

\* Iterate giving up the batch once a send of any request was refused
IterateUnlessAnyRefused(q) ==
    IF \/ q.i > Len(q.notifications)
       \/ \E p \in DOMAIN req : \E k \in 1..Len(req[p].sends) :
              req[p].sends[k].result.kind \in {"NACK", "error"}
    THEN Return(q)
    ELSE [q EXCEPT !.pc = "loop"]

\* the range loop at record q.i: the next record, or the end of the handler
Iterate(q) ==
    IF q.i > Len(q.notifications) THEN Return(q) ELSE [q EXCEPT !.pc = "loop"]

\* Decode refusing a body without records
DecodeRequiringRecords(q) ==
    LET u == Unmarshal(q.body)
    IN  IF u.err # "" \/ u.Records = <<>>
        THEN Return(HttpError(q, IF u.err # "" THEN u.err ELSE "no records",
                              StatusBadRequest))
        ELSE Iterate([q EXCEPT !.decoded = TRUE,
                               !.notifications = u.Records, !.i = 1])

\* Decode going on with whatever was decoded, the error unread
DecodeIgnoringError(q) ==
    Iterate([q EXCEPT !.decoded = TRUE,
                      !.notifications = Unmarshal(q.body).Records, !.i = 1])

\* lines 150-159: json.Unmarshal and the entry to the loop
Decode(q) ==
    LET u == Unmarshal(q.body)
    IN  IF u.err # ""
        THEN Return(HttpError(q, u.err, StatusBadRequest))
        ELSE Iterate([q EXCEPT !.decoded = TRUE,
                               !.notifications = u.Records, !.i = 1])

\* PostMessage going on to the next record when the payload does not marshal
PostMessageSkippingUnmarshalable(q, a, clock, marshalOK) ==
    LET n == q.notifications[q.i]
        m == [q EXCEPT !.mapped = @ + 1]
    IN  IF ~marshalOK
        THEN Iterate([m EXCEPT !.i = @ + 1])
        ELSE [m EXCEPT !.pc = "send",
                       !.sends = Append(@, [event |-> NewEvent(n, clock),
                                            ctx |-> MetricContext(a),
                                            result |-> Pending])]

\* PostMessage leaving out a send whose event id was delivered before
PostMessageOncePerID(q, a, clock, marshalOK) ==
    LET n == q.notifications[q.i]
        m == [q EXCEPT !.mapped = @ + 1]
    IN  IF ~marshalOK
        THEN Return(HttpError(m, MarshalErrorText, StatusBadRequest))
        ELSE IF \E p \in DOMAIN req : \E k \in 1..Len(req[p].sends) :
                   /\ req[p].sends[k].event.id = NewEvent(n, clock).id
                   /\ req[p].sends[k].result.kind \in {"nil", "ACK"}
        THEN Iterate([q EXCEPT !.i = @ + 1])
        ELSE [m EXCEPT !.pc = "send",
                       !.sends = Append(@, [event |-> NewEvent(n, clock),
                                            ctx |-> MetricContext(a),
                                            result |-> Pending])]

\* lines 91-116 and 120-125: postMessage up to the call of client.Send
PostMessage(q, a, clock, marshalOK) ==
    LET n == q.notifications[q.i]
        m == [q EXCEPT !.mapped = @ + 1]
    IN  IF ~marshalOK
        THEN Return(HttpError(m, MarshalErrorText, StatusBadRequest))
        ELSE [m EXCEPT !.pc = "send",
                       !.sends = Append(@, [event |-> NewEvent(n, clock),
                                            ctx |-> MetricContext(a),
                                            result |-> Pending])]

\* NextIndex stepping over a record
NextIndexSkipping(i) == i + 2

NextIndex(i) == i + 1

\* SendReturn answering a refused send with a text of its own
SendReturnDroppingCause(q, result) ==
    LET s == [q EXCEPT !.sends[Len(q.sends)].result = result]
    IN  IF ~IsACK(result)
        THEN Return(HttpError(s, "failed to send cloudevent", StatusBadRequest))
        ELSE Iterate([s EXCEPT !.i = NextIndex(@)])

\* SendReturn trying the same record again after a refused send
SendReturnRetrying(q, result) ==
    LET s == [q EXCEPT !.sends[Len(q.sends)].result = result]
    IN  IF ~IsACK(result)
        THEN [s EXCEPT !.pc = "loop"]
        ELSE Iterate([s EXCEPT !.i = NextIndex(@)])

\* lines 125-131 and 161-165: client.Send returns result
SendReturn(q, result) ==
    LET s == [q EXCEPT !.sends[Len(q.sends)].result = result]
    IN  IF ~IsACK(result)
        THEN Return(HttpError(s, result.text, StatusBadRequest))
        ELSE Iterate([s EXCEPT !.i = NextIndex(@)])

(***************************************************************************)
(* The actions.                                                            *)
(***************************************************************************)
\* start, lines 81-83: register the handler, spawn the listener goroutine
Start ==
    /\ startPc = "new"
    /\ mux' = mux \cup {"/"}
    /\ listener' = "spawned"
    /\ startPc' = "waiting"
    /\ UNCHANGED <<req, now, ca, startResult, stopCh>>

\* http.ListenAndServe binds the port, or returns an error nobody reads
ListenAndServe ==
    /\ listener = "spawned"
    /\ \E bound \in BOOLEAN :
          listener' = IF bound THEN "serving" ELSE "failed"
    /\ UNCHANGED <<req, now, ca, startPc, startResult, stopCh, mux>>

\* the context handed to Start is cancelled
Stop ==
    /\ stopCh = "open"
    /\ stopCh' = "closed"
    /\ UNCHANGED <<req, now, ca, startPc, startResult, listener, mux>>

\* StartReturn handing the listener's error to the caller
StartReturnReportingListener ==
    /\ startPc = "waiting"
    /\ stopCh = "closed"
    /\ startPc' = "returned"
    /\ startResult' = IF listener = "failed" THEN "listener error" ELSE "nil"
    /\ UNCHANGED <<req, now, ca, listener, stopCh, mux>>

\* start, lines 84-87: the receive on stopCh completes and start returns nil
StartReturn ==
    /\ startPc = "waiting"
    /\ stopCh = "closed"
    /\ startPc' = "returned"
    /\ startResult' = "nil"
    /\ UNCHANGED <<req, now, ca, listener, stopCh, mux>>

\* the wall clock advances
Tick ==
    /\ now < MaxClock
    /\ now' = now + 1
    /\ UNCHANGED <<req, ca, startPc, startResult, listener, stopCh, mux>>

\* a request with this method and body was answered before
Resubmitted(method, body) ==
    \E p \in Handlers :
        req[p].pc = "done" /\ req[p].method = method /\ req[p].body = body

\* the listener accepts a request and runs postHandler up to the body read
Accept(r) ==
    /\ listener = "serving"
    /\ "/" \in mux
    /\ req[r].pc = "idle"
    /\ \A p \in Handlers : p < r => req[p].pc # "idle"
    /\ \E method \in Methods, body \in Bodies :
          req' = [req EXCEPT ![r] =
                     Entry([IdleRequest EXCEPT !.pc = "entry",
                                               !.method = method,
                                               !.body = body,
                                               !.late = (startPc = "returned"),
                                               !.resubmission =
                                                   Resubmitted(method, body)])]
    /\ UNCHANGED <<now, ca, startPc, startResult, listener, stopCh, mux>>

ReadBody(r) ==
    /\ req[r].pc = "read"
    /\ \E ok \in BOOLEAN : req' = [req EXCEPT ![r] = ReadAll(req[r], ok)]
    /\ UNCHANGED <<now, ca, startPc, startResult, listener, stopCh, mux>>

DecodeBody(r) ==
    /\ req[r].pc = "decode"
    /\ req' = [req EXCEPT ![r] = Decode(req[r])]
    /\ UNCHANGED <<now, ca, startPc, startResult, listener, stopCh, mux>>

CallPostMessage(r) ==
    /\ req[r].pc = "loop"
    /\ \E marshalOK \in BOOLEAN :
          req' = [req EXCEPT ![r] = PostMessage(req[r], ca, now, marshalOK)]
    /\ UNCHANGED <<now, ca, startPc, startResult, listener, stopCh, mux>>

\* SendResult under a context that the stop signal cancels
SendResultCancelledByStop(r) ==
    /\ req[r].pc = "send"
    /\ \E result \in IF stopCh = "closed"
                     THEN {[kind |-> "error", text |-> "context canceled"]}
                     ELSE SendResults(ca.client) :
          req' = [req EXCEPT ![r] = SendReturn(req[r], result)]
    /\ UNCHANGED <<now, ca, startPc, startResult, listener, stopCh, mux>>

SendResult(r) ==
    /\ req[r].pc = "send"
    /\ \E result \in SendResults(ca.client) :
          req' = [req EXCEPT ![r] = SendReturn(req[r], result)]
    /\ UNCHANGED <<now, ca, startPc, startResult, listener, stopCh, mux>>

Next ==
    \/ Start
    \/ ListenAndServe
    \/ Stop
    \/ StartReturn
    \/ Tick
    \/ \E r \in Handlers : Accept(r)
    \/ \E r \in Handlers : ReadBody(r)
    \/ \E r \in Handlers : DecodeBody(r)
    \/ \E r \in Handlers : CallPostMessage(r)
    \/ \E r \in Handlers : SendResult(r)

Spec == Init /\ [][Next]_vars

\* the same adapter with one request more, so that requests overlap
InitConcurrent ==
    /\ req = [r \in 1..(NumRequests + 1) |-> IdleRequest]
    /\ now = 0
    /\ ca \in {NewAdapter(c) : c \in Clients}
    /\ startPc = "new"
    /\ startResult = "none"
    /\ listener = "none"
    /\ stopCh = "open"
    /\ mux = {}

SpecConcurrent == InitConcurrent /\ [][Next]_vars

(***************************************************************************)
(* Vocabulary of the properties.                                           *)
(***************************************************************************)
\* the raw Records of the body a request posted
Raw(q) == IF q.body.json /\ q.body.hasRecords THEN q.body.Records ELSE <<>>

Answered(q) == q.pc = "done"

Acked(s) == s.result.kind \in {"nil", "ACK"}

Refused(s) == s.result.kind \in {"NACK", "error"}

\* the envelope of send i was derived from record i of the posted batch
FromRecord(q, i) ==
    /\ i <= Len(Raw(q))
    /\ q.sends[i].event.data = DecodeNotification(Raw(q)[i])
    /\ q.sends[i].event.id =
          Member(Raw(q)[i], "requestId") \o Member(Raw(q)[i], "id2")

\* sends 1..k-1 acknowledged, send k refused
FailsAt(q, k) ==
    /\ k \in 1..Len(q.sends)
    /\ \A i \in 1..(k - 1) : Acked(q.sends[i])
    /\ Refused(q.sends[k])

\* C1: fail-fast at the first failing record.  When the sends of records
\* 1..k-1 were acknowledged and the send of record k was not, Send has been
\* invoked exactly k times, for records 1..k in batch order, is not invoked
\* for a later record (the request is answered), and the response is a 400
\* whose body is the line carrying the text of record k's result.
C1_FailFast ==
    \A r \in Requests : \A k \in 1..Len(req[r].sends) :
        FailsAt(req[r], k) =>
            /\ Len(req[r].sends) = k
            /\ \A i \in 1..k : FromRecord(req[r], i)
            /\ Answered(req[r])
            /\ req[r].status = 400
            /\ req[r].respBody = req[r].sends[k].result.text \o "\n"

\* a batch of two records whose second send was refused
C1_Witness ==
    \E r \in Requests :
        /\ Len(Raw(req[r])) = 2
        /\ FailsAt(req[r], 2)
        /\ Answered(req[r])

\* every record was mapped and sent and every send was acknowledged
AllDelivered(q) ==
    /\ q.decoded
    /\ q.mapped = Len(q.sends)
    /\ \A i \in 1..Len(q.sends) : Acked(q.sends[i])

\* C2: in-order complete delivery.  The sends of a request are at all times
\* the envelopes of a prefix of its batch, one per record in batch order;
\* an answered request whose sends were all acknowledged has sent every one
\* of its N records and carries a 200 response with an empty body.
C2_InOrderComplete ==
    \A r \in Requests :
        /\ \A i \in 1..Len(req[r].sends) : FromRecord(req[r], i)
        /\ (Answered(req[r]) /\ AllDelivered(req[r])) =>
              /\ Len(req[r].sends) = Len(Raw(req[r]))
              /\ req[r].status = 200
              /\ req[r].respBody = ""

\* a two-record batch fully delivered
C2_Witness ==
    \E r \in Requests :
        /\ Answered(req[r]) /\ AllDelivered(req[r])
        /\ Len(Raw(req[r])) = 2
        /\ Len(req[r].sends) = 2

\* C3: a success response implies full delivery.  An answered request with
\* a non-error status posted with POST, had its body read and decoded, and
\* every record of its batch was mapped, sent and acknowledged; an answered
\* request with a refused send or a record that could not be marshalled
\* carries an error status.
C3_SuccessImpliesDelivery ==
    \A r \in Requests :
        /\ (Answered(req[r]) /\ req[r].status < 400) =>
              /\ req[r].method = "POST"
              /\ req[r].bodyRead /\ req[r].body.json /\ req[r].decoded
              /\ req[r].mapped = Len(Raw(req[r]))
              /\ Len(req[r].sends) = Len(Raw(req[r]))
              /\ \A i \in 1..Len(req[r].sends) : Acked(req[r].sends[i])
        /\ (\/ \E i \in 1..Len(req[r].sends) : Refused(req[r].sends[i])
            \/ req[r].mapped > Len(req[r].sends)) =>
              (Answered(req[r]) /\ req[r].status >= 400)

\* a success response to a batch of two records, both sent and acknowledged
C3_Witness ==
    \E r \in Requests :
        /\ Answered(req[r]) /\ req[r].status = 200
        /\ req[r].mapped = 2
        /\ Len(req[r].sends) = 2

\* C4: a request whose method is not POST never reaches batch processing.
\* Its body is neither read nor decoded, nothing is mapped or sent, and it
\* is answered with an error status and the header Allow: POST.
C4_NonPostRejected ==
    \A r \in Requests :
        (req[r].pc # "idle" /\ req[r].method # "POST") =>
            /\ ~req[r].bodyRead /\ ~req[r].decoded
            /\ req[r].notifications = <<>>
            /\ req[r].mapped = 0 /\ req[r].sends = <<>>
            /\ Answered(req[r])
            /\ req[r].status >= 400
            /\ req[r].allow = "POST"

\* a GET that carried a deliverable batch
C4_Witness ==
    \E r \in Requests :
        /\ req[r].method = "GET"
        /\ Len(Raw(req[r])) = 2
        /\ Answered(req[r])

\* C5: a request whose method is not POST is answered with status 405.
C5_NonPostIs405 ==
    \A r \in Requests :
        (Answered(req[r]) /\ req[r].method # "POST") => req[r].status = 405

\* C6: a POST whose body is not JSON has no partial effects.  Once its
\* body was read and the decode attempted, nothing was decoded, mapped or
\* sent and the response is a 400 whose body is the line carrying the
\* decode error.
C6_UndecodableRejected ==
    \A r \in Requests :
        (/\ req[r].method = "POST" /\ req[r].bodyRead
         /\ ~req[r].body.json /\ req[r].pc # "decode") =>
            /\ ~req[r].decoded /\ req[r].notifications = <<>>
            /\ req[r].mapped = 0 /\ req[r].sends = <<>>
            /\ Answered(req[r])
            /\ req[r].status = 400
            /\ req[r].respBody = SyntaxErrorText \o "\n"

\* a POST of a body that is not JSON, answered
C6_Witness ==
    \E r \in Requests :
        /\ req[r].method = "POST" /\ req[r].bodyRead
        /\ ~req[r].body.json /\ Answered(req[r])

\* the raw eventTime of record i does not parse as RFC 3339
Unparsable(q, i) == ~ParseOK(Member(Raw(q)[i], "eventTime"))

\* an answered error has a cause other than a timestamp: the method, the
\* body read, the decode, the marshalling or a refused send
ErrorHasCause(q) ==
    \/ q.method # "POST"
    \/ ~q.bodyRead
    \/ ~q.decoded
    \/ q.mapped > Len(q.sends) /\ q.respBody = MarshalErrorText \o "\n"
    \/ Len(q.sends) > 0 /\ Refused(q.sends[Len(q.sends)])

\* C7: envelope field derivation.  Every envelope handed to Send has
\* id = request id followed by id-2, source = eventSource "." awsRegion "."
\* bucket name, type = "com.amazonaws." followed by the event name and
\* subject = the object key, all of the record at the same position of the
\* posted batch (a member absent from the document reads as the empty
\* string); the record of the spec's scenario yields id "abc123" and source
\* "ceph:s3.us-east-1.mybucket"; there is one envelope per mapped record.
C7_EnvelopeFields ==
    \A r \in Requests :
        /\ Len(req[r].sends) <= req[r].mapped
        /\ req[r].mapped <= Len(Raw(req[r]))
        /\ \A i \in 1..Len(req[r].sends) :
              LET j == Raw(req[r])[i]
                  e == req[r].sends[i].event
              IN  /\ e.id = Member(j, "requestId") \o Member(j, "id2")
                  /\ e.source = Member(j, "eventSource") \o "."
                                  \o Member(j, "awsRegion") \o "."
                                  \o Member(j, "bucketName")
                  /\ e.type = "com.amazonaws." \o Member(j, "eventName")
                  /\ e.subject = Member(j, "objectKey")
                  /\ j = JPut =>
                        /\ e.id = "abc123"
                        /\ e.source = "ceph:s3.us-east-1.mybucket"
                        /\ e.type = "com.amazonaws.ObjectCreated:Put"
                        /\ e.subject = "file.txt"
                  /\ j = JDelete =>
                        /\ e.id = "abc123"
                        /\ e.source = "ceph:s3..logs"

\* the scenario's record and the record without a region, both sent
C7_Witness ==
    \E r \in Requests :
        /\ Len(req[r].sends) = 2
        /\ Raw(req[r])[1] = JPut
        /\ Raw(req[r])[2] = JDelete

\* C8, in every state: the envelope of a record whose eventTime does not
\* parse carries a wall-clock time no later than now, an envelope of a
\* record whose eventTime parses carries the parsed time, and an answered
\* error always has a cause that is not the timestamp.
C8_FallbackState ==
    \A r \in Requests :
        /\ \A i \in 1..Len(req[r].sends) :
              IF Unparsable(req[r], i)
              THEN /\ req[r].sends[i].event.time.clock = "wall"
                   /\ req[r].sends[i].event.time.at \in 0..now
              ELSE req[r].sends[i].event.time.clock = "parsed"
        /\ (Answered(req[r]) /\ req[r].status >= 400) => ErrorHasCause(req[r])

\* C8, in every step: a record whose eventTime does not parse and whose
\* payload marshals is mapped and handed to Send with the time the wall
\* clock shows at the call, and when that send is acknowledged the batch
\* goes on to the next record.
C8_FallbackStep ==
    \A r \in Requests :
        /\ (/\ req[r].pc = "loop" /\ Unparsable(req[r], req[r].i)
            /\ req'[r] # req[r] /\ req'[r].pc # "done") =>
              /\ req'[r].pc = "send"
              /\ Len(req'[r].sends) = req[r].i
              /\ req'[r].sends[req[r].i].event.time = TimeNow(now)
        /\ (/\ req[r].pc = "send" /\ Unparsable(req[r], req[r].i)
            /\ req'[r] # req[r] /\ Acked(req'[r].sends[req[r].i])
            /\ req[r].i < Len(Raw(req[r]))) =>
              /\ req'[r].pc = "loop"
              /\ req'[r].i = req[r].i + 1

\* C8: a timestamp that does not parse is never an error.
C8_TimestampFallback == []C8_FallbackState /\ [][C8_FallbackStep]_vars

\* a two-record batch whose first record has no parsable eventTime, sent
\* after the clock moved and followed by the send of the second record
C8_Witness ==
    \E r \in Requests :
        /\ Len(req[r].sends) = 2
        /\ Unparsable(req[r], 1)
        /\ req[r].sends[1].event.time = TimeNow(1)

\* C9: no retry.  A request never has more sends than records, send i is
\* the one send of record i, and a refused send is the last send of its
\* request, which is answered.
C9_NoRetry ==
    \A r \in Requests :
        /\ Len(req[r].sends) <= Len(Raw(req[r]))
        /\ \A i \in 1..Len(req[r].sends) :
              /\ req[r].sends[i].event.data = DecodeNotification(Raw(req[r])[i])
              /\ Refused(req[r].sends[i]) =>
                    (i = Len(req[r].sends) /\ Answered(req[r]))

\* a refused first send of a two-record batch
C9_Witness ==
    \E r \in Requests :
        /\ Len(Raw(req[r])) = 2
        /\ Len(req[r].sends) = 1
        /\ Refused(req[r].sends[1])
        /\ Answered(req[r])

\* C10: once start has returned on the stop signal the listener accepts no
\* new request: no request that arrived after the return is handled, with a
\* Send made for it and a response written.
C10_NoRequestAfterShutdown ==
    \A r \in Requests :
        ~(req[r].late /\ Len(req[r].sends) > 0 /\ Answered(req[r]))

\* the response a request's own method, body and send results call for
OwnResponse(q) ==
    IF q.method # "POST" THEN <<400, "405 Method Not Allowed\n">>
    ELSE IF ~q.bodyRead THEN <<400, ReadErrorText \o "\n">>
    ELSE IF ~q.body.json THEN <<400, SyntaxErrorText \o "\n">>
    ELSE IF q.mapped > Len(q.sends) THEN <<400, MarshalErrorText \o "\n">>
    ELSE IF Len(q.sends) > 0 /\ Refused(q.sends[Len(q.sends)])
    THEN <<400, q.sends[Len(q.sends)].result.text \o "\n">>
    ELSE IF Len(q.sends) = Len(Raw(q)) THEN <<200, "">>
    ELSE <<0, "">>

\* C11, in every state: the sends of each request are the envelopes of a
\* prefix of its own batch in batch order, the response of an answered
\* request is the one its own method, body and send results call for, and
\* the adapter's fields are those of its construction.
C11_OwnState ==
    /\ ca \in {NewAdapter(c) : c \in Clients}
    /\ \A r \in Handlers :
          /\ Len(req[r].sends) <= Len(Raw(req[r]))
          /\ \A i \in 1..Len(req[r].sends) : FromRecord(req[r], i)
          /\ Answered(req[r]) =>
                <<req[r].status, req[r].respBody>> = OwnResponse(req[r])

\* C11, in every step: a step of one request leaves every other request as
\* it was, refused sends included, and no step changes the adapter's fields.
C11_OwnStep ==
    /\ ca' = ca
    /\ \A r \in Handlers : \A p \in Handlers \ {r} :
          req'[r] # req[r] => req'[p] = req[p]

\* C11: concurrent requests are independent.
C11_Independent == []C11_OwnState /\ [][C11_OwnStep]_vars

\* two requests in flight together: the first was answered 400 on a refused
\* send while the second, past that moment, is in its second send
C11_Witness ==
    /\ Cardinality(Handlers) >= 2
    /\ Answered(req[1]) /\ FailsAt(req[1], 1) /\ Len(Raw(req[1])) = 2
    /\ req[2].pc = "send" /\ Len(req[2].sends) = 2
    /\ req[2].body = req[1].body

\* p failed at a record after the first and q posts p's batch again
ResubmissionOf(q, p) ==
    /\ q.resubmission /\ q.method = "POST" /\ p.method = "POST"
    /\ q.body = p.body
    /\ Answered(p)
    /\ \E k \in 2..Len(p.sends) : FailsAt(p, k)

\* C12: batches are neither atomic nor deduplicated.  When a batch failed
\* at record k > 1 and the same batch is posted again, every record i < k
\* the second request has got past was sent again, with the envelope id of
\* the first request's send, and acknowledged a second time.
C12_Redelivery ==
    \A r \in Handlers : \A p \in Handlers \ {r} :
        ResubmissionOf(req[r], req[p]) =>
            \A i \in 1..(Len(req[p].sends) - 1) :
                (req[r].decoded /\ req[r].i > i) =>
                    /\ i <= Len(req[r].sends)
                    /\ req[r].sends[i].event.id = req[p].sends[i].event.id
                    /\ req[r].sends[i].event.data = req[p].sends[i].event.data
                    /\ Acked(req[r].sends[i]) /\ Acked(req[p].sends[i])

\* a batch that failed at its second record, posted again after the answer,
\* its first record delivered a second time
C12_Witness ==
    \E r \in Handlers : \E p \in Handlers \ {r} :
        /\ ResubmissionOf(req[r], req[p])
        /\ FailsAt(req[p], 2)
        /\ req[r].i > 1
        /\ Acked(req[r].sends[1])
        /\ req[r].sends[1].event.id = req[p].sends[1].event.id

\* C13: metric tagging on every send.  The context of every invocation of
\* Send carries a metric tag with the adapter's namespace ("default"), the
\* adapter's name ("ceph-source") and the resource group
\* "cephsources.sources.knative.dev".
C13_MetricTagOnEverySend ==
    \A r \in Requests : \A i \in 1..Len(req[r].sends) :
        /\ "metricTag" \in DOMAIN req[r].sends[i].ctx
        /\ req[r].sends[i].ctx.metricTag.Name = ca.name
        /\ req[r].sends[i].ctx.metricTag.Namespace = ca.namespace
        /\ req[r].sends[i].ctx.metricTag =
              [Namespace |-> "default", Name |-> "ceph-source",
               ResourceGroup |-> "cephsources.sources.knative.dev"]

\* the second send of a batch, made and answered by the sink
C13_Witness ==
    \E r \in Requests :
        /\ Len(req[r].sends) = 2
        /\ req[r].sends[2].result # Pending

\* C14: delivery-result interpretation.  One call of Send is pending exactly
\* while the request waits in it; once Send returned, the request went on
\* past record k (sendCloudEvent returned nil) if and only if the result of
\* send k was an acknowledgement, and after any other result the request is
\* answered 400 with the text of that result and no further call is made.
C14_ResultInterpretation ==
    \A r \in Requests : \A k \in 1..Len(req[r].sends) :
        LET s == req[r].sends[k]
        IN  /\ s.result = Pending <=>
                  (req[r].pc = "send" /\ k = Len(req[r].sends))
            /\ s.result # Pending =>
                  /\ req[r].i > k <=> s.result.kind \in {"nil", "ACK"}
                  /\ s.result.kind \notin {"nil", "ACK"} =>
                        /\ k = Len(req[r].sends)
                        /\ req[r].i = k
                        /\ Answered(req[r])
                        /\ req[r].status = 400
                        /\ req[r].respBody = s.result.text \o "\n"

\* a transport-level error on the second send, after an acknowledged first
C14_Witness ==
    \E r \in Requests :
        /\ Len(req[r].sends) = 2
        /\ Acked(req[r].sends[1])
        /\ req[r].sends[2].result = ResultError
        /\ Answered(req[r])

\* C15: serialization failure halts before sending.  When the payload of
\* record k could not be marshalled (record k was mapped and no send was
\* made for it), Send was invoked for records 1..k-1 only, all of them
\* acknowledged, and the request is answered 400 with the marshal error.
C15_MarshalFailureHalts ==
    \A r \in Requests :
        req[r].mapped > Len(req[r].sends) =>
            /\ req[r].mapped = Len(req[r].sends) + 1
            /\ req[r].i = req[r].mapped
            /\ \A i \in 1..Len(req[r].sends) :
                  Acked(req[r].sends[i]) /\ FromRecord(req[r], i)
            /\ Answered(req[r])
            /\ req[r].status = 400
            /\ req[r].respBody = MarshalErrorText \o "\n"

\* the second record of a batch of two could not be marshalled
C15_Witness ==
    \E r \in Requests :
        /\ Len(Raw(req[r])) = 2
        /\ req[r].mapped = 2
        /\ Len(req[r].sends) = 1
        /\ Answered(req[r])

\* C18: an empty batch succeeds without effects.  A POST whose body is JSON
\* with an empty or absent Records is, once decoded, answered 200 with an
\* empty body, nothing mapped and nothing sent.
C18_EmptyBatch ==
    \A r \in Requests :
        (/\ req[r].method = "POST" /\ req[r].bodyRead /\ req[r].body.json
         /\ Raw(req[r]) = <<>> /\ req[r].pc # "decode") =>
            /\ Answered(req[r])
            /\ req[r].status = 200
            /\ req[r].respBody = ""
            /\ req[r].mapped = 0
            /\ req[r].sends = <<>>

\* a POST of a JSON body without a Records member, answered
C18_Witness ==
    \E r \in Requests :
        /\ req[r].method = "POST" /\ req[r].bodyRead
        /\ req[r].body = NoRecordsBody
        /\ Answered(req[r])

\* a request accepted before start returned, still being handled
InFlight(q) == ~q.late /\ q.pc \in {"read", "decode", "loop", "send"}

\* C16, in every state after the stop signal: the context of every send is
\* derived from context.Background(), a request accepted before the signal
\* that waits in Send can still have it acknowledged and go on, and one
\* that stands before a record can still have it sent.
C16_AfterStopState ==
    \A r \in Requests :
        /\ \A i \in 1..Len(req[r].sends) :
              req[r].sends[i].ctx.parent = "background"
        /\ (stopCh = "closed" /\ InFlight(req[r]) /\ req[r].pc = "send") =>
              ENABLED (SendResult(r) /\ req'[r].i = req[r].i + 1)
        /\ (stopCh = "closed" /\ InFlight(req[r]) /\ req[r].pc = "loop") =>
              ENABLED (CallPostMessage(r) /\ req'[r].pc = "send")

\* C16, in every step: the stop signal and the return of start leave every
\* request as it was.
C16_StopStep ==
    (stopCh' # stopCh \/ startPc' # startPc) => req' = req

\* C16: shutdown does not cancel in-flight work.
C16_NoCancellation == []C16_AfterStopState /\ [][C16_StopStep]_vars

\* start has returned while a request accepted before it is in its second
\* send
C16_Witness ==
    \E r \in Requests :
        /\ startPc = "returned"
        /\ InFlight(req[r])
        /\ req[r].pc = "send"
        /\ Len(req[r].sends) = 2

\* C17: start blocks until the stop signal and always returns nil.  start
\* has returned only when the stop channel was closed, what it returned is
\* nil whatever became of the listener, and once the channel is closed a
\* waiting start can return, the listener failed or not.
C17_StartReturnsNil ==
    /\ startPc = "returned" => (stopCh = "closed" /\ startResult = "nil")
    /\ startPc # "returned" => startResult = "none"
    /\ (startPc = "waiting" /\ stopCh = "closed") => ENABLED StartReturn

\* start returned nil although the listener could not bind
C17_Witness ==
    /\ startPc = "returned"
    /\ startResult = "nil"
    /\ listener = "failed"
====
